---- MODULE Spec2Model ----
(***************************************************************************)
(* Model of the teslemetry_stream client:                                  *)
(*   - TeslemetryStream: the reconnecting consume loop (listen/__anext__), *)
(*     the listener registry and the dispatch of decoded events            *)
(*     (src/teslemetry_stream/stream.py);                                  *)
(*   - recursive_match: the filter matcher (stream.py);                    *)
(*   - the timestamp derived from createdAt by __anext__ (stream.py);      *)
(*   - TeslemetryStreamVehicle: the debounced configuration synchronizer   *)
(*     update_config/add_field/prefer_typed and merge, and the read of     *)
(*     the configuration, get_config (vehicle.py).                         *)
(* asyncio runs one task at a time and switches tasks only at an await,    *)
(* so every action below is the code between two awaits.                   *)
(***************************************************************************)
EXTENDS Integers, Sequences, FiniteSets, TLC

VARIABLES
    \* ---- filter matcher (pure function under test)
    mP, mE, mOrder, mResult,
    \* ---- timestamp parsing (pure function under test)
    createdAt, timestamp,
    \* ---- TeslemetryStream
    active, listeners, filters, response, openConns, delay,
    pc, rd, dispatch, nextSub, nextTask,
    seq, delivered, lastPass, manual, ignored, keyErrors,
    \* ---- TeslemetryStreamVehicle
    cfg, fields, preferTyped, lockHolder, lockQueue, sleepQ, cpc, call, ncalls,
    patches, hist, gpc, gres

matchVars  == <<mP, mE, mOrder, mResult, createdAt, timestamp>>
streamVars == <<active, listeners, filters, response, openConns, delay,
                pc, rd, dispatch, nextSub, nextTask,
                seq, delivered, lastPass, manual, ignored, keyErrors>>
configVars == <<cfg, fields, preferTyped, lockHolder, lockQueue, sleepQ, cpc, call,
                ncalls, patches, hist, gpc, gres>>
vars == <<matchVars, streamVars, configVars>>

(***************************************************************************)
(* JSON values.  A value is a tagged record: null, a scalar (an integer or *)
(* a string), a mapping (a function from keys to values) or a sequence.    *)
(***************************************************************************)
Null      == [t |-> "null"]
Absent    == [t |-> "absent"]
IntVal(n) == [t |-> "int", v |-> n]
StrVal(s) == [t |-> "str", v |-> s]
ListVal(l) == [t |-> "list", v |-> l]

Keys == {"a", "b"}

\* The mapping {"a": va, "b": vb}; a key whose value is Absent is left out.
MapVal(va, vb) ==
    LET pick(k) == IF k = "a" THEN va ELSE vb
    IN  [t |-> "map", v |-> [k \in {x \in Keys : pick(x).t # "absent"} |-> pick(k)]]

EmptyMap == MapVal(Absent, Absent)

IsScalar(x) == x.t \in {"int", "str"}

\* The keys of a mapping in iteration order; a dict iterates in insertion
\* order, which the input decides: `order` lists all keys in that order.
KeySeq(m, order) == SelectSeq(order, LAMBDA k : k \in DOMAIN m.v)

(***************************************************************************)
(* recursive_match(dict1, dict2), stream.py:313-343, computed as the code  *)
(* computes it: keys in iteration order, first failing key decides.  The   *)
(* result is "true", "false" or "raise" (a TypeError/AttributeError of an  *)
(* operation applied to a value of the wrong shape).                       *)
(***************************************************************************)

\* `key not in dict2`, line 323: "yes" (key is in), "no", or "raise".
\* A mapping tests its keys, a sequence its elements, a string tests for a
\* substring (all strings here are one character long, so a substring is an
\* equal string); null and numbers do not support `in`.
KeyIn(key, dict2) ==
    CASE dict2.t = "map"  -> IF key \in DOMAIN dict2.v THEN "yes" ELSE "no"
      [] dict2.t = "list" -> IF \E i \in DOMAIN dict2.v :
                                   dict2.v[i].t = "str" /\ dict2.v[i].v = key
                             THEN "yes" ELSE "no"
      [] dict2.t = "str"  -> IF dict2.v = key THEN "yes" ELSE "no"
      [] OTHER            -> "raise"

\* `dict2[key]`, line 326, once `key in dict2` held: only a mapping can be
\* indexed by a string key.
CanIndex(dict2) == dict2.t = "map"

\* `for item2 in value2`, line 334: the elements a value iterates over: the
\* elements of a sequence, the keys of a mapping, the characters of a
\* string.  Null and numbers are not iterable.
Iterable(value2) == value2.t \in {"list", "map", "str"}
IterItems(value2, order) ==
    CASE value2.t = "list" -> value2.v
      [] value2.t = "map"  -> [i \in 1..Len(KeySeq(value2, order)) |->
                                  StrVal(KeySeq(value2, order)[i])]
      [] value2.t = "str"  -> <<value2>>
      [] OTHER             -> <<>>

\* `value1 != value2`, line 340, for a scalar value1.
ScalarDiffers(value1, value2) == ~(value2.t = value1.t /\ value2.v = value1.v)

RECURSIVE recursive_match(_, _, _)
RECURSIVE match_items(_, _, _, _)
RECURSIVE match_any(_, _, _)
RECURSIVE match_all(_, _, _)

\* any(recursive_match(item1, item2) for item2 in items), line 334
match_any(item1, items, order) ==
    IF items = <<>> THEN "false"
    ELSE LET r == recursive_match(item1, Head(items), order)
         IN  IF r = "false" THEN match_any(item1, Tail(items), order) ELSE r

\* all(any(...) for item1 in value1), lines 333-336
match_all(value1, value2, order) ==
    IF value1 = <<>> THEN "true"
    ELSE IF ~Iterable(value2) THEN "raise"
    ELSE LET r == match_any(Head(value1), IterItems(value2, order), order)
         IN  IF r = "true" THEN match_all(Tail(value1), value2, order) ELSE r

\* the body of `for key, value1 in dict1.items()`, lines 322-341
match_items(dict1, dict2, keys, order) ==
    IF keys = <<>> THEN "true"
    ELSE
      LET key    == Head(keys)
          value1 == dict1.v[key]
          has    == KeyIn(key, dict2)
      IN  IF has = "raise" THEN "raise"
          ELSE IF has = "no" THEN "false"
          ELSE IF ~CanIndex(dict2) THEN "raise"
          ELSE
            LET value2 == dict2.v[key]
                r == CASE value1.t = "map"  -> recursive_match(value1, value2, order)
                       [] value1.t = "list" -> match_all(value1.v, value2, order)
                       [] IsScalar(value1)  -> IF ScalarDiffers(value1, value2)
                                               THEN "false" ELSE "true"
                       [] OTHER             -> "true"
            IN  IF r = "true" THEN match_items(dict1, dict2, Tail(keys), order) ELSE r

recursive_match(dict1, dict2, order) ==
    IF dict1.t = "null" THEN "true"
    ELSE IF dict1.t # "map" THEN "raise"      \* dict1.items() on a non-dict
    ELSE match_items(dict1, dict2, KeySeq(dict1, order), order)

(***************************************************************************)
(* The inputs of the matcher: every pattern and event of a bounded shape.  *)
(***************************************************************************)
MaxListLen == 2

\* All sequences over `base` of length exactly n, then of length at most n.
RECURSIVE Pow(_, _)
Pow(b, n) == IF n = 0 THEN 1 ELSE b * Pow(b, n - 1)
TuplesOfLen(base, n) ==
    [i \in 1..Pow(Len(base), n) |->
        [j \in 1..n |-> base[(((i - 1) \div Pow(Len(base), j - 1)) % Len(base)) + 1]]]
RECURSIVE TuplesUpTo(_, _)
TuplesUpTo(base, n) ==
    IF n = 0 THEN << <<>> >> ELSE TuplesUpTo(base, n - 1) \o TuplesOfLen(base, n)
MapSeq(s, Op(_)) == [i \in 1..Len(s) |-> Op(s[i])]

Leaves       == <<Null, IntVal(1), IntVal(2)>>
InnerMaps    == <<EmptyMap, MapVal(Absent, Null), MapVal(Absent, IntVal(1)),
                  MapVal(Absent, IntVal(2))>>
ListElems    == <<EmptyMap, MapVal(Absent, IntVal(1)), MapVal(Absent, IntVal(2))>>
InnerLists   == MapSeq(TuplesUpTo(ListElems, MaxListLen), ListVal)

PatternValues == <<Absent>> \o Leaves \o InnerMaps \o InnerLists
EventValues   == <<Absent>> \o Leaves \o <<StrVal("b")>> \o InnerMaps \o InnerLists
                   \o <<ListVal(<<IntVal(1)>>), ListVal(<<StrVal("b")>>)>>
SecondPattern == <<Absent, Null, IntVal(1)>>
SecondEvent   == <<Absent, IntVal(1), IntVal(2)>>
KeyOrders     == << <<"a", "b">>, <<"b", "a">> >>

\* no timestamp is being parsed
NoTimestamp   == [raised |-> FALSE, sec |-> 0, ms |-> -1]
TimestampIdle == createdAt = <<>> /\ timestamp = NoTimestamp

MatchInit ==
    /\ \E i \in 0..Len(PatternValues), j \in 1..Len(SecondPattern) :
          mP = IF i = 0 THEN Null ELSE MapVal(PatternValues[i], SecondPattern[j])
    /\ \E i \in 1..Len(EventValues), j \in 1..Len(SecondEvent) :
          mE = MapVal(EventValues[i], SecondEvent[j])
    /\ \E o \in 1..Len(KeyOrders) : mOrder = KeyOrders[o]
    /\ mResult = "none"
    /\ TimestampIdle

\* the caller evaluates recursive_match(mP, mE)
Evaluate ==
    /\ mResult = "none"
    /\ mResult' = recursive_match(mP, mE, mOrder)
    /\ UNCHANGED <<mP, mE, mOrder, createdAt, timestamp, streamVars, configVars>>

(***************************************************************************)
(* The timestamp of an event, stream.py:219-225, computed as the code      *)
(* computes it.  createdAt is a text: a sequence of tokens, the first the  *)
(* 19 characters "YYYY-MM-DDTHH:MM:SS" of a date and time (one token, v    *)
(* its index in DateTimes), then possibly a "." and decimal digits.        *)
(***************************************************************************)
MaxFracLen == 4

DateTimes ==
    << [Y |-> 2024, M |-> 1,  D |-> 1,  h |-> 0,  m |-> 0,  s |-> 0],
       [Y |-> 1970, M |-> 1,  D |-> 1,  h |-> 0,  m |-> 0,  s |-> 1],
       [Y |-> 2024, M |-> 2,  D |-> 29, h |-> 23, m |-> 59, s |-> 59],
       [Y |-> 1999, M |-> 12, D |-> 31, h |-> 12, m |-> 30, s |-> 15] >>
FracDigits == <<0, 1, 9>>

DateTimeTok(i) == [k |-> "datetime", v |-> i]
DotTok         == [k |-> "dot", v |-> 0]
DigitTok(n)    == [k |-> "digit", v |-> n]

\* str.partition("."), line 220: the text before the first "." and the text
\* after it; the whole text and the empty text when there is no "."
Dots(txt) == {i \in DOMAIN txt : txt[i].k = "dot"}
FirstDot(txt) == CHOOSE i \in Dots(txt) : \A j \in Dots(txt) : i <= j
partition(txt) ==
    IF Dots(txt) = {} THEN [main |-> txt, ns |-> <<>>]
    ELSE [main |-> SubSeq(txt, 1, FirstDot(txt) - 1),
          ns   |-> SubSeq(txt, FirstDot(txt) + 1, Len(txt))]

\* ns[:3], line 225
FirstThree(txt) == SubSeq(txt, 1, IF Len(txt) < 3 THEN Len(txt) ELSE 3)

\* int(text), line 225: the decimal value of a text of digits; the empty
\* text and a text with another character raise ValueError
RECURSIVE DecimalValue(_)
DecimalValue(txt) ==
    IF txt = <<>> THEN 0
    ELSE 10 * DecimalValue(SubSeq(txt, 1, Len(txt) - 1)) + txt[Len(txt)].v
int(txt) ==
    IF txt = <<>> \/ \E i \in DOMAIN txt : txt[i].k # "digit"
    THEN [raised |-> TRUE, v |-> 0]
    ELSE [raised |-> FALSE, v |-> DecimalValue(txt)]

\* datetime.strptime(main, "%Y-%m-%dT%H:%M:%S"), line 222: main must be a
\* date and time and nothing else
strptime(main) ==
    IF Len(main) = 1 /\ main[1].k = "datetime"
    THEN [raised |-> FALSE, v |-> DateTimes[main[1].v]]
    ELSE [raised |-> TRUE, v |-> DateTimes[1]]

\* .replace(tzinfo=timezone.utc).timestamp(), lines 223-224: the seconds
\* from 1970-01-01T00:00:00 UTC, by the days of the proleptic Gregorian
\* calendar
DaysFromCivil(Y, M, D) ==
    LET y   == IF M <= 2 THEN Y - 1 ELSE Y
        era == y \div 400
        yoe == y - era * 400
        mp  == IF M > 2 THEN M - 3 ELSE M + 9
        doy == (153 * mp + 2) \div 5 + D - 1
        doe == yoe * 365 + yoe \div 4 - yoe \div 100 + doy
    IN  era * 146097 + doe - 719468
utc_timestamp(dt) ==
    DaysFromCivil(dt.Y, dt.M, dt.D) * 86400 + dt.h * 3600 + dt.m * 60 + dt.s

\* lines 220-225: the value stored in data["timestamp"], or the ValueError
\* that leaves the block.  The value is int(seconds) * 1000 + int(ns[:3]);
\* it is kept as its two terms, [sec, ms] standing for sec * 1000 + ms.
parse_timestamp(txt) ==
    LET parts == partition(txt)
        whole == strptime(parts.main)
        frac  == int(FirstThree(parts.ns))
    IN  IF whole.raised \/ frac.raised THEN [raised |-> TRUE, sec |-> 0, ms |-> 0]
        ELSE [raised |-> FALSE, sec |-> utc_timestamp(whole.v), ms |-> frac.v]

\* The inputs: every date and time, alone or followed by "." and up to
\* MaxFracLen digits.
DigitTexts == MapSeq(TuplesUpTo(FracDigits, MaxFracLen),
                     LAMBDA ds : [i \in 1..Len(ds) |-> DigitTok(ds[i])])
TimestampInit ==
    /\ \E d \in 1..Len(DateTimes), f \in 0..Len(DigitTexts) :
          createdAt = <<DateTimeTok(d)>>
                      \o (IF f = 0 THEN <<>> ELSE <<DotTok>> \o DigitTexts[f])
    /\ timestamp = NoTimestamp

\* __anext__ derives the timestamp of the event it decoded
ParseTimestamp ==
    /\ timestamp = NoTimestamp
    /\ timestamp' = parse_timestamp(createdAt)
    /\ UNCHANGED <<mP, mE, mOrder, mResult, createdAt, streamVars, configVars>>

\* An event that was decoded without the key createdAt.
NoKeyTok == [k |-> "nokey", v |-> 0]

\* lines 219-225 for a decoded event: `data["createdAt"]`, line 220, raises
\* KeyError when the event has no such key; otherwise the timestamp is
\* derived from its value.
event_timestamp(c) ==
    IF c = <<NoKeyTok>> THEN [raised |-> TRUE, sec |-> 0, ms |-> 0]
    ELSE parse_timestamp(c)

\* The events: with a createdAt as above, or without the key.
EventInit ==
    /\ \/ createdAt = <<NoKeyTok>>
       \/ \E d \in 1..Len(DateTimes), f \in 0..Len(DigitTexts) :
             createdAt = <<DateTimeTok(d)>>
                         \o (IF f = 0 THEN <<>> ELSE <<DotTok>> \o DigitTexts[f])
    /\ timestamp = NoTimestamp

\* __anext__ with parse_timestamp enabled handles the event it decoded
DeriveTimestamp ==
    /\ timestamp = NoTimestamp
    /\ timestamp' = event_timestamp(createdAt)
    /\ UNCHANGED <<mP, mE, mOrder, mResult, createdAt, streamVars, configVars>>

(***************************************************************************)
(* The matcher as the specification words it (spec 4.3, property 1): every *)
(* key of the pattern is present in the event and its value is             *)
(* unconstrained (null), equal (scalar), matched recursively (mapping), or *)
(* matched for-all/exists against the event's sequence (sequence).         *)
(***************************************************************************)
RECURSIVE SubsetMatch(_, _)
SubsetMatch(P, E) ==
    \/ P.t = "null"
    \/ /\ P.t = "map"
       /\ \A k \in DOMAIN P.v :
            /\ E.t = "map"
            /\ k \in DOMAIN E.v
            /\ LET p == P.v[k]
                   e == E.v[k]
               IN  CASE p.t = "null" -> TRUE
                     [] IsScalar(p)  -> e.t = p.t /\ e.v = p.v
                     [] p.t = "map"  -> SubsetMatch(p, e)
                     [] p.t = "list" ->
                          \A i \in DOMAIN p.v :
                             /\ e.t = "list"
                             /\ \E j \in DOMAIN e.v : SubsetMatch(p.v[i], e.v[j])
                     [] OTHER -> FALSE

(***************************************************************************)
(* TeslemetryStream: listener registry, consume loop, dispatch.            *)
(***************************************************************************)
DELAY == 1

MaxSubs   == 3      \* registrations made in one run
MaxTasks  == 2      \* listen() tasks alive or finished
MaxConns  == 2      \* responses open at the same time
MaxEvents == 2      \* events decoded in one run
MaxDelay  == 2      \* a step fails only while delay <= MaxDelay

SubIds  == 1..MaxSubs
TaskIds == 1..MaxTasks
ConnIds == 1..MaxConns

\* The events the server sends and the filters subscribers register.
StreamEvents  == << MapVal(MapVal(Absent, IntVal(1)), Absent),   \* {"a": {"b": 1}}
                    MapVal(Absent, IntVal(1)),                   \* {"b": 1}
                    MapVal(IntVal(1), Absent) >>                 \* {"a": 1}
StreamFilters == << Null,                                        \* None
                    MapVal(MapVal(Absent, Null), Absent) >>      \* {"a": {"b": None}}
DictOrder == <<"a", "b">>

Running == {"scheduled", "connecting", "reading", "sleep_double", "sleep_keep",
            "dispatching"}

NoDispatch == [task |-> 0, ev |-> 0, n |-> 0, pos |-> 0, size0 |-> 0,
               owed |-> {}, raised |-> FALSE, disposed |-> FALSE]
NoPass     == [raised |-> FALSE, disposed |-> FALSE, crashed |-> FALSE,
               missed |-> {}]

Idle == dispatch.task = 0

Registered(ls) == {ls[i] : i \in DOMAIN ls}

\* the entries are removed by their filter: every subscription registered
\* with the filter of s goes with it
remove_listener_by_filter(ls, act, s) ==
    LET nl == SelectSeq(ls, LAMBDA x : filters[x] # filters[s])
    IN  [listeners |-> nl, active |-> IF nl = <<>> THEN FALSE ELSE act]

\* remove_listener(), lines 258-265, for a registered subscription s:
\* the registry without s, and `active` cleared when it becomes empty.
remove_listener(ls, act, s) ==
    LET nl == SelectSeq(ls, LAMBDA x : x # s)
    IN  [listeners |-> nl, active |-> IF nl = <<>> THEN FALSE ELSE act]

\* a task is made for the first registration of all and for no later one
schedule_refresh_once(ls) == ls = <<>> /\ nextSub = 1

\* `schedule_refresh = not self._listeners`, line 256
schedule_refresh(ls) == ls = <<>>

\* self.delay += self.delay, line 239
BackoffNext(d) == d + d

\* __init__, lines 42-51, but for `manual`
StreamStart ==
    /\ active = FALSE
    /\ listeners = <<>>
    /\ filters = [s \in SubIds |-> 0]
    /\ response = 0
    /\ openConns = {}
    /\ delay = DELAY
    /\ pc = [t \in TaskIds |-> "none"]
    /\ rd = [t \in TaskIds |-> 0]
    /\ dispatch = NoDispatch
    /\ nextSub = 1
    /\ nextTask = 1
    /\ seq = 0
    /\ delivered = [s \in SubIds |-> <<>>]
    /\ lastPass = NoPass
    /\ ignored = 0
    /\ keyErrors = 0

\* TeslemetryStream(session, token): `manual` has its default, line 27
StreamInit == StreamStart /\ manual = FALSE

\* the `connected` property, lines 69-76
connected == response # 0

\* the connection is closed but the handle stays set
closeKeepsHandle == [response |-> response, openConns |-> openConns \ {response}]

\* close(), lines 180-187, as the new value of (_response, open responses)
close == [response |-> 0, openConns |-> openConns \ {response}]

\* the test of `active` left out: a stopped stream connects or reads again
AnextBeginIgnoresStop(t, act) ==
    IF response = 0
    THEN /\ active' = TRUE
         /\ pc' = [pc EXCEPT ![t] = "connecting"]
         /\ rd' = [rd EXCEPT ![t] = 0]
         /\ UNCHANGED <<response, openConns>>
    ELSE /\ active' = act
         /\ pc' = [pc EXCEPT ![t] = "reading"]
         /\ rd' = [rd EXCEPT ![t] = response]
         /\ UNCHANGED <<response, openConns>>

\* The start of __anext__, lines 207-214, with `act` the value of `active`:
\* stop and close when inactive, connect when there is no response, read
\* the current response otherwise.  connect() sets active (line 152) and
\* awaits the GET.
AnextBegin(t, act) ==
    IF ~act
    THEN /\ active' = act
         /\ response' = close.response
         /\ openConns' = close.openConns
         /\ pc' = [pc EXCEPT ![t] = "done"]
         /\ rd' = [rd EXCEPT ![t] = 0]
    ELSE IF response = 0
    THEN /\ active' = TRUE
         /\ pc' = [pc EXCEPT ![t] = "connecting"]
         /\ rd' = [rd EXCEPT ![t] = 0]
         /\ UNCHANGED <<response, openConns>>
    ELSE /\ active' = act
         /\ pc' = [pc EXCEPT ![t] = "reading"]
         /\ rd' = [rd EXCEPT ![t] = response]
         /\ UNCHANGED <<response, openConns>>

\* the first listener schedules a listen() task also in a manual stream
AddListenerAlways(f) ==
    /\ Idle
    /\ nextSub <= MaxSubs
    /\ listeners' = Append(listeners, nextSub)
    /\ filters' = [filters EXCEPT ![nextSub] = f]
    /\ nextSub' = nextSub + 1
    /\ IF schedule_refresh(listeners)
       THEN /\ nextTask <= MaxTasks
            /\ pc' = [pc EXCEPT ![nextTask] = "scheduled"]
            /\ nextTask' = nextTask + 1
       ELSE UNCHANGED <<pc, nextTask>>
    /\ UNCHANGED <<matchVars, configVars, active, response, openConns, delay, rd, dispatch,
                   seq, delivered, lastPass, manual, ignored, keyErrors>>

\* async_add_listener(callback, filters) called by the application,
\* lines 246-273.  The first listener schedules a listen() task.
AddListener(f) ==
    /\ Idle
    /\ nextSub <= MaxSubs
    /\ listeners' = Append(listeners, nextSub)
    /\ filters' = [filters EXCEPT ![nextSub] = f]
    /\ nextSub' = nextSub + 1
    /\ IF schedule_refresh(listeners) /\ ~manual
       THEN /\ nextTask <= MaxTasks
            /\ pc' = [pc EXCEPT ![nextTask] = "scheduled"]
            /\ nextTask' = nextTask + 1
       ELSE UNCHANGED <<pc, nextTask>>
    /\ UNCHANGED <<matchVars, configVars, active, response, openConns, delay, rd, dispatch,
                   seq, delivered, lastPass, manual, ignored, keyErrors>>

\* The application calls the disposer of a registered subscription.
RemoveListener(s) ==
    /\ Idle
    /\ s \in Registered(listeners)
    /\ listeners' = remove_listener(listeners, active, s).listeners
    /\ active' = remove_listener(listeners, active, s).active
    /\ filters' = [filters EXCEPT ![s] = 0]
    /\ delivered' = [delivered EXCEPT ![s] = <<>>]
    /\ UNCHANGED <<matchVars, configVars, response, openConns, delay, pc, rd, dispatch,
                   nextSub, nextTask, manual, ignored, keyErrors, seq, lastPass>>

\* The application calls close(), lines 180-187.  A task reading the closed
\* response finds its read failing (ReadEnd).
CloseCall ==
    /\ Idle
    /\ response' = close.response
    /\ openConns' = close.openConns
    /\ UNCHANGED <<matchVars, configVars, active, listeners, filters, delay, pc, rd, dispatch,
                   nextSub, nextTask, manual, ignored, keyErrors, seq, delivered, lastPass>>

\* The listen() task starts: __aiter__ sets active (line 196), then the
\* first __anext__ runs up to its first await.
TaskStart(t) ==
    /\ Idle
    /\ pc[t] = "scheduled"
    /\ AnextBegin(t, TRUE)
    /\ UNCHANGED <<matchVars, configVars, listeners, filters, delay, dispatch, nextSub, nextTask, manual, ignored, keyErrors,
                   seq, delivered, lastPass>>

\* The GET of connect() returns a response, lines 160-168, 214-215.
ConnectOk(t) ==
    /\ Idle
    /\ pc[t] = "connecting"
    /\ \E c \in ConnIds :
         /\ c \notin openConns
         /\ \A u \in TaskIds : rd[u] # c
         /\ \A d \in ConnIds : (d \notin openConns /\ \A u \in TaskIds : rd[u] # d) => c <= d
         /\ response' = c
         /\ openConns' = openConns \cup {c}
         /\ rd' = [rd EXCEPT ![t] = c]
    /\ pc' = [pc EXCEPT ![t] = "reading"]
    /\ UNCHANGED <<matchVars, configVars, active, listeners, filters, delay, dispatch, nextSub, nextTask, manual, ignored, keyErrors,
                   seq, delivered, lastPass>>

\* The GET raises aiohttp.ClientError: lines 234-238 up to the sleep.
ConnectFail(t) ==
    /\ Idle
    /\ pc[t] = "connecting"
    /\ delay <= MaxDelay
    /\ response' = close.response
    /\ openConns' = close.openConns
    /\ pc' = [pc EXCEPT ![t] = "sleep_double"]
    /\ UNCHANGED <<matchVars, configVars, active, listeners, filters, delay, rd, dispatch, nextSub,
                   nextTask, manual, ignored, keyErrors, seq, delivered, lastPass>>

\* the read is given up when `active` is false: the event is dropped and
\* the loop ends at once
ReadEventStopsEarly(t, e) ==
    /\ Idle
    /\ pc[t] = "reading"
    /\ rd[t] \in openConns
    /\ seq < MaxEvents
    /\ IF active
       THEN /\ delay' = DELAY
            /\ seq' = seq + 1
            /\ dispatch' = [task |-> t, ev |-> e, n |-> seq + 1, pos |-> 1,
                            size0 |-> Len(listeners),
                            owed |-> {s \in Registered(listeners) :
                                        recursive_match(StreamFilters[filters[s]],
                                                        StreamEvents[e], DictOrder) = "true"},
                            raised |-> FALSE, disposed |-> FALSE]
            /\ pc' = [pc EXCEPT ![t] = "dispatching"]
            /\ UNCHANGED <<response, openConns, rd>>
       ELSE /\ response' = close.response
            /\ openConns' = close.openConns
            /\ pc' = [pc EXCEPT ![t] = "done"]
            /\ rd' = [rd EXCEPT ![t] = 0]
            /\ UNCHANGED <<delay, seq, dispatch>>
    /\ UNCHANGED <<matchVars, configVars, active, listeners, filters, nextSub,
                   nextTask, manual, ignored, keyErrors, delivered, lastPass>>

\* A data line decodes to event e: lines 215-228, and listen() begins the
\* dispatch pass over self._listeners.values(), lines 279-281.
ReadEvent(t, e) ==
    /\ Idle
    /\ pc[t] = "reading"
    /\ rd[t] \in openConns
    /\ seq < MaxEvents
    /\ delay' = DELAY
    /\ seq' = seq + 1
    /\ dispatch' = [task |-> t, ev |-> e, n |-> seq + 1, pos |-> 1,
                    size0 |-> Len(listeners),
                    owed |-> {s \in Registered(listeners) :
                                recursive_match(StreamFilters[filters[s]],
                                                StreamEvents[e], DictOrder) = "true"},
                    raised |-> FALSE, disposed |-> FALSE]
    /\ pc' = [pc EXCEPT ![t] = "dispatching"]
    /\ UNCHANGED <<matchVars, configVars, active, listeners, filters, response, openConns, rd, nextSub,
                   nextTask, manual, ignored, keyErrors, delivered, lastPass>>

\* The body ends or the read fails with aiohttp.ClientError:
\* TeslemetryStreamEnded, lines 229, 234-238 up to the sleep.  A response
\* that was closed meanwhile fails the read in this way.
ReadEnd(t) ==
    /\ Idle
    /\ pc[t] = "reading"
    /\ delay <= MaxDelay
    /\ response' = close.response
    /\ openConns' = close.openConns
    /\ pc' = [pc EXCEPT ![t] = "sleep_double"]
    /\ rd' = [rd EXCEPT ![t] = 0]
    /\ UNCHANGED <<matchVars, configVars, active, listeners, filters, delay, dispatch, nextSub,
                   nextTask, manual, ignored, keyErrors, seq, delivered, lastPass>>

\* no handler for an unexpected exception: it leaves __anext__ and listen()
ReadBadPropagates(t) ==
    /\ Idle
    /\ pc[t] = "reading"
    /\ rd[t] \in openConns
    /\ pc' = [pc EXCEPT ![t] = "crashed"]
    /\ rd' = [rd EXCEPT ![t] = 0]
    /\ UNCHANGED <<matchVars, configVars, active, listeners, filters, delay, dispatch, nextSub,
                   nextTask, manual, ignored, keyErrors, seq, delivered, lastPass, response, openConns>>

\* A data line fails to decode (json.loads, createdAt) or the read raises
\* another exception: lines 240-244 up to the sleep.
ReadBad(t) ==
    /\ Idle
    /\ pc[t] = "reading"
    /\ rd[t] \in openConns
    /\ response' = close.response
    /\ openConns' = close.openConns
    /\ pc' = [pc EXCEPT ![t] = "sleep_keep"]
    /\ rd' = [rd EXCEPT ![t] = 0]
    /\ UNCHANGED <<matchVars, configVars, active, listeners, filters, delay, dispatch, nextSub,
                   nextTask, manual, ignored, keyErrors, seq, delivered, lastPass>>

\* asyncio.sleep(self.delay) returns: line 239 (first handler only), the
\* step returns None, listen() skips it (line 280) and calls __anext__.
SleepWake(t) ==
    /\ Idle
    /\ pc[t] \in {"sleep_double", "sleep_keep"}
    /\ delay' = IF pc[t] = "sleep_double" THEN BackoffNext(delay) ELSE delay
    /\ AnextBegin(t, active)
    /\ UNCHANGED <<matchVars, configVars, listeners, filters, dispatch, nextSub, nextTask, manual, ignored, keyErrors,
                   seq, delivered, lastPass>>

(***************************************************************************)
(* The dispatch pass of listen(), lines 281-286.  The pass has no await:   *)
(* nothing else runs until it ends, so every other action requires Idle.   *)
(* `for ... in self._listeners.values()` iterates the live dict: each step *)
(* of the iterator raises RuntimeError when the size of the dict differs   *)
(* from its size when the iteration began; the RuntimeError is raised      *)
(* outside the try of line 283 and ends the listen() task.                 *)
(***************************************************************************)
Dispatching(t) == dispatch.task = t /\ pc[t] = "dispatching"

\* the iterator's check: may the pass continue over the dict as it is now
IterValid(ls, size0) == Len(ls) = size0

Current == listeners[dispatch.pos]

\* the callback invoked whatever the filter says
MatchOfCurrentUnfiltered == "true"

MatchOfCurrent ==
    recursive_match(StreamFilters[filters[Current]], StreamEvents[dispatch.ev], DictOrder)

\* what the pass leaves behind: the subscriptions that matched when the
\* pass began, are still registered and were not invoked
PassRecord(crashed) ==
    [raised |-> dispatch.raised, disposed |-> dispatch.disposed,
     crashed |-> crashed, missed |-> dispatch.owed \cap Registered(listeners)]

\* the exception leaves listen(): the task is gone, nothing is closed
Crash(t) ==
    /\ pc' = [pc EXCEPT ![t] = "crashed"]
    /\ rd' = [rd EXCEPT ![t] = 0]
    /\ lastPass' = PassRecord(TRUE)
    /\ dispatch' = NoDispatch

DispatchChanged(t) ==
    /\ Dispatching(t)
    /\ ~IterValid(listeners, dispatch.size0)
    /\ Crash(t)
    /\ UNCHANGED <<matchVars, configVars, active, listeners, filters, response, openConns, delay,
                   nextSub, nextTask, manual, ignored, keyErrors, seq, delivered>>

\* the iterator is exhausted: the pass is over, __anext__ is called again
DispatchEnd(t) ==
    /\ Dispatching(t)
    /\ IterValid(listeners, dispatch.size0)
    /\ dispatch.pos > Len(listeners)
    /\ lastPass' = PassRecord(FALSE)
    /\ dispatch' = NoDispatch
    /\ AnextBegin(t, active)
    /\ UNCHANGED <<matchVars, configVars, listeners, filters, delay, nextSub, nextTask, manual, ignored, keyErrors,
                   seq, delivered>>

\* `if recursive_match(filters, event)` is false, line 282
DispatchSkip(t) ==
    /\ Dispatching(t)
    /\ IterValid(listeners, dispatch.size0)
    /\ dispatch.pos <= Len(listeners)
    /\ MatchOfCurrent = "false"
    /\ dispatch' = [dispatch EXCEPT !.pos = @ + 1]
    /\ UNCHANGED <<matchVars, configVars, active, listeners, filters, response, openConns, delay, pc, rd,
                   nextSub, nextTask, manual, ignored, keyErrors, seq, delivered, lastPass>>

\* recursive_match raises, line 282, outside the try
DispatchMatchRaises(t) ==
    /\ Dispatching(t)
    /\ IterValid(listeners, dispatch.size0)
    /\ dispatch.pos <= Len(listeners)
    /\ MatchOfCurrent = "raise"
    /\ Crash(t)
    /\ UNCHANGED <<matchVars, configVars, active, listeners, filters, response, openConns, delay,
                   nextSub, nextTask, manual, ignored, keyErrors, seq, delivered>>

\* listener(event), lines 283-286: the callback is invoked
Invoke(t) ==
    /\ Dispatching(t)
    /\ IterValid(listeners, dispatch.size0)
    /\ dispatch.pos <= Len(listeners)
    /\ MatchOfCurrent = "true"
    /\ delivered' = [delivered EXCEPT ![Current] = Append(@, dispatch.n)]

\* ... and returns
CallbackReturns(t) ==
    /\ Invoke(t)
    /\ dispatch' = [dispatch EXCEPT !.pos = @ + 1, !.owed = @ \ {Current}]
    /\ UNCHANGED <<matchVars, configVars, active, listeners, filters, response, openConns, delay, pc, rd,
                   nextSub, nextTask, manual, ignored, keyErrors, seq, lastPass>>

\* ... and raises an Exception, which line 285 catches
CallbackRaises(t) ==
    /\ Invoke(t)
    /\ dispatch' = [dispatch EXCEPT !.pos = @ + 1, !.owed = @ \ {Current},
                                    !.raised = TRUE]
    /\ UNCHANGED <<matchVars, configVars, active, listeners, filters, response, openConns, delay, pc, rd,
                   nextSub, nextTask, manual, ignored, keyErrors, seq, lastPass>>

\* ... and calls the disposer of the registered subscription s (its own or
\* another's), then returns or raises
CallbackDisposes(t, s, raises) ==
    /\ Dispatching(t)
    /\ IterValid(listeners, dispatch.size0)
    /\ dispatch.pos <= Len(listeners)
    /\ MatchOfCurrent = "true"
    /\ s \in Registered(listeners)
    /\ delivered' = [delivered EXCEPT ![Current] = Append(@, dispatch.n), ![s] = <<>>]
    /\ listeners' = remove_listener(listeners, active, s).listeners
    /\ active' = remove_listener(listeners, active, s).active
    /\ filters' = [filters EXCEPT ![s] = 0]
    /\ dispatch' = [dispatch EXCEPT !.pos = @ + 1, !.owed = @ \ {Current},
                                    !.raised = @ \/ raises, !.disposed = TRUE]
    /\ UNCHANGED <<matchVars, configVars, response, openConns, delay, pc, rd,
                   nextSub, nextTask, manual, ignored, keyErrors, seq, lastPass>>

(***************************************************************************)
(* The rest of the interface: lines that carry no data, disconnect(), a    *)
(* disposer called again, and listen() called by the application of a      *)
(* stream made with manual=True.                                           *)
(***************************************************************************)
MaxIgnored   == 1   \* lines without data read in one run
MaxKeyErrors == 1   \* calls of a disposer that was called before

\* every line read resets the backoff delay, whatever its field
ReadIgnoredResetsDelay(t) ==
    /\ Idle
    /\ pc[t] = "reading"
    /\ rd[t] \in openConns
    /\ ignored < MaxIgnored
    /\ ignored' = ignored + 1
    /\ delay' = DELAY
    /\ UNCHANGED <<matchVars, configVars, active, listeners, filters, response, openConns,
                   pc, rd, dispatch, nextSub, nextTask, seq, delivered, lastPass,
                   manual, keyErrors>>

\* A line whose field is not "data" (a comment, an `event:` line, an empty
\* line): lines 215-217, the `if` fails and the `async for` awaits the
\* next line of the same response.
ReadIgnored(t) ==
    /\ Idle
    /\ pc[t] = "reading"
    /\ rd[t] \in openConns
    /\ ignored < MaxIgnored
    /\ ignored' = ignored + 1
    /\ UNCHANGED <<matchVars, configVars, active, listeners, filters, response, openConns,
                   delay, pc, rd, dispatch, nextSub, nextTask, seq, delivered, lastPass,
                   manual, keyErrors>>

\* The application calls disconnect(), lines 173-178.
Disconnect ==
    /\ Idle
    /\ active' = FALSE
    /\ response' = close.response
    /\ openConns' = close.openConns
    /\ UNCHANGED <<matchVars, configVars, listeners, filters, delay, pc, rd, dispatch,
                   nextSub, nextTask, seq, delivered, lastPass, manual, ignored, keyErrors>>

\* the registry is tested whether or not the subscription was there: the
\* call clears `active` when no subscription is left
DisposeAgainTestsRegistry(s) ==
    /\ Idle
    /\ s < nextSub
    /\ s \notin Registered(listeners)
    /\ keyErrors < MaxKeyErrors
    /\ keyErrors' = keyErrors + 1
    /\ active' = IF listeners = <<>> THEN FALSE ELSE active
    /\ UNCHANGED <<matchVars, configVars, listeners, filters, response, openConns,
                   delay, pc, rd, dispatch, nextSub, nextTask, seq, delivered, lastPass,
                   manual, ignored>>

\* The application calls the disposer of a subscription that is no longer
\* registered: `self._listeners.pop(remove_listener)`, line 262, raises
\* KeyError and lines 263-265 are not reached.
DisposeAgain(s) ==
    /\ Idle
    /\ s < nextSub
    /\ s \notin Registered(listeners)
    /\ keyErrors < MaxKeyErrors
    /\ keyErrors' = keyErrors + 1
    /\ UNCHANGED <<matchVars, configVars, active, listeners, filters, response, openConns,
                   delay, pc, rd, dispatch, nextSub, nextTask, seq, delivered, lastPass,
                   manual, ignored>>

\* The application of a manual stream runs listen() itself, lines 275-287.
ListenCall ==
    /\ Idle
    /\ manual
    /\ nextTask <= MaxTasks
    /\ pc' = [pc EXCEPT ![nextTask] = "scheduled"]
    /\ nextTask' = nextTask + 1
    /\ UNCHANGED <<matchVars, configVars, active, listeners, filters, response, openConns,
                   delay, rd, dispatch, nextSub, seq, delivered, lastPass,
                   manual, ignored, keyErrors>>

\* the steps of the listen() task t
TaskStep(t) ==
    \/ TaskStart(t)
    \/ ConnectOk(t)
    \/ ConnectFail(t)
    \/ \E e \in 1..Len(StreamEvents) : ReadEvent(t, e)
    \/ ReadEnd(t)
    \/ ReadBad(t)
    \/ SleepWake(t)
    \/ DispatchChanged(t)
    \/ DispatchEnd(t)
    \/ DispatchSkip(t)
    \/ DispatchMatchRaises(t)
    \/ CallbackReturns(t)
    \/ CallbackRaises(t)
    \/ \E s \in SubIds, raises \in BOOLEAN : CallbackDisposes(t, s, raises)

StreamNext ==
    \/ \E f \in 1..Len(StreamFilters) : AddListener(f)
    \/ \E s \in SubIds : RemoveListener(s)
    \/ CloseCall
    \/ \E t \in TaskIds : TaskStep(t)

\* ... with the lines that carry no data
LinesNext ==
    \/ StreamNext
    \/ \E t \in TaskIds : ReadIgnored(t)

\* ... with disposers called again
DisposeNext ==
    \/ StreamNext
    \/ \E s \in SubIds : DisposeAgain(s)

\* ... with disconnect() and, for a manual stream, listen()
AppNext ==
    \/ StreamNext
    \/ Disconnect
    \/ ListenCall

(***************************************************************************)
(* TeslemetryStreamVehicle: the debounced configuration synchronizer.      *)
(* `_config` is a class attribute holding one dict: merge() changes that   *)
(* dict in place and returns it, so `self._config` of every vehicle is the *)
(* same object (cfg).  `fields` and `preferTyped` become attributes of the *)
(* instance at the first assignment (lines 123, 126).                      *)
(***************************************************************************)
NumVins    == 2     \* vehicles of the stream
NumCallers == 3     \* tasks calling add_field / prefer_typed
MaxCalls   == 3     \* calls made in one run

Vins    == 1..NumVins
Callers == 1..NumCallers

\* the vehicle each caller works on: the first two callers share vehicle 1
VinOf(c) == IF c <= 2 THEN 1 ELSE ((c - 3) % (NumVins - 1)) + 2

FieldNames == <<"F", "G">>
Intervals  == <<Null, IntVal(30)>>
CfgOrder   == <<"fields", "prefer_typed", "F", "G", "interval_seconds">>
Outcomes   == {"acked", "error", "other", "patch_raised"}

BoolVal(b) == [t |-> "bool", v |-> b]
Map1(k, x) == [t |-> "map", v |-> [j \in {k} |-> x]]
Put(m, k, x) ==
    [t |-> "map", v |-> [j \in DOMAIN m.v \cup {k} |-> IF j = k THEN x ELSE m.v[j]]]
Has(m, k) == m.t = "map" /\ k \in DOMAIN m.v
IsEmpty(m) == DOMAIN m.v = {}

\* merge(source, destination), vehicle.py:2134-2142.  The destination is
\* changed in place: `val` is the destination after the call, also when the
\* call raised (setdefault or an item assignment on a value that is not a
\* dict raises AttributeError/TypeError).
RECURSIVE merge(_, _)
RECURSIVE merge_keys(_, _, _)
merge_keys(source, destination, keys) ==
    IF keys = <<>> THEN [raised |-> FALSE, val |-> destination]
    ELSE IF destination.t # "map" THEN [raised |-> TRUE, val |-> destination]
    ELSE
      LET key   == Head(keys)
          value == source.v[key]
      IN  IF value.t = "map"
          THEN LET node == IF key \in DOMAIN destination.v
                           THEN destination.v[key] ELSE EmptyMap
                   r    == merge(value, node)
                   d    == Put(destination, key, r.val)
               IN  IF r.raised THEN [raised |-> TRUE, val |-> d]
                   ELSE merge_keys(source, d, Tail(keys))
          ELSE merge_keys(source, Put(destination, key, value), Tail(keys))

merge(source, destination) ==
    merge_keys(source, destination, KeySeq(source, CfgOrder))

\* The test of add_field comparing the recorded entry itself, not its
\* interval_seconds, with the interval: a recorded mapping never equals it.
AlreadyEnabledWholeEntry(tbl, field, interval) ==
    IF field \notin DOMAIN tbl.v THEN "no"
    ELSE IF interval.t = "null" THEN "yes"
    ELSE IF tbl.v[field].t = interval.t /\ tbl.v[field].t = "int"
         THEN "yes" ELSE "no"

\* The test of add_field, line 155: "yes" (already enabled, nothing to
\* do), "no", or "raise" (`.get` on a field recorded as None).
AlreadyEnabled(tbl, field, interval) ==
    IF field \notin DOMAIN tbl.v THEN "no"
    ELSE IF interval.t = "null" THEN "yes"
    ELSE IF tbl.v[field].t # "map" THEN "raise"
    ELSE IF /\ Has(tbl.v[field], "interval_seconds")
            /\ tbl.v[field].v["interval_seconds"].t = interval.t
            /\ tbl.v[field].v["interval_seconds"].v = interval.v
         THEN "yes" ELSE "no"

\* The diff add_field passes to update_config, lines 159-160.
add_field_config(field, interval) ==
    LET truthy == interval.t = "int" /\ interval.v # 0
        value  == IF truthy THEN Map1("interval_seconds", interval) ELSE Null
    IN  Map1("fields", Map1(field, value))

\* The test of prefer_typed, line 164, and its diff, line 166.
SamePreference(cur, b) == cur.t = "bool" /\ cur.v = b
prefer_typed_config(b) == Map1("prefer_typed", BoolVal(b))

\* Lines 121-126 on an acknowledged PATCH: the new field table and the new
\* preferTyped.  `x := d.get(k) in [True, False]` binds x to the result of
\* the membership test.
AckFields(tbl, config) ==
    IF Has(config, "fields") /\ config.v["fields"].t = "map"
       /\ ~IsEmpty(config.v["fields"])
    THEN LET fs == config.v["fields"]
         IN  [t |-> "map",
              v |-> [k \in DOMAIN tbl.v \cup DOMAIN fs.v |->
                        IF k \in DOMAIN fs.v THEN fs.v[k] ELSE tbl.v[k]]]
    ELSE tbl
AckPreferTyped(cur, config) ==
    LET prefer_typed == Has(config, "prefer_typed")
                        /\ config.v["prefer_typed"].t = "bool"
    IN  IF prefer_typed THEN BoolVal(prefer_typed) ELSE cur

\* get_config(), lines 83-100: the answers of the GET.  A 200 answer carries
\* a JSON object; `ok` is aiohttp's test behind raise_for_status (a status
\* below 400 does not raise).
GetStatuses == <<200, 204, 404, 500>>
GetBodies ==
    << EmptyMap,
       Map1("fields", EmptyMap),
       Map1("fields", Map1("F", Null)),
       Put(Map1("fields", Map1("F", Map1("interval_seconds", IntVal(30)))),
           "prefer_typed", BoolVal(TRUE)),
       Put(Map1("fields", Map1("G", Null)), "prefer_typed", BoolVal(FALSE)) >>
NoRead == [status |-> 0, raised |-> FALSE]
ok(status) == status < 400

\* dict.get(key, default)
DictGet(m, key, default) == IF Has(m, key) THEN m.v[key] ELSE default

MatchIdle  == mP = Null /\ mE = Null /\ mOrder = <<>> /\ mResult = "none"
              /\ TimestampIdle
\* One call of add_field or prefer_typed as the caller c sees it, with what
\* the properties need to know about it: `epoch` numbers the calls in the
\* order they were made, `alone` says that no other call was made while
\* this one ran, `mates` are the calls on the same vehicle waiting in the
\* debounce sleep when this one staged its diff, `at` is the number of
\* PATCHes sent before it staged, `patch` the PATCH it sent (0: none).
NoCall == [vin |-> 0, kind |-> "none", field |-> "", arg |-> Null, config |-> EmptyMap,
           epoch |-> 0, alone |-> FALSE, fresh |-> FALSE, mates |-> {}, at |-> 0,
           patch |-> 0, result |-> "none"]

NewCall(c, v, kind, field, arg, config) ==
    [vin |-> v, kind |-> kind, field |-> field, arg |-> arg, config |-> config,
     epoch |-> ncalls + 1,
     alone |-> \A d \in Callers \ {c} : cpc[d] = "idle",
     fresh |-> kind = "field" /\ field \notin DOMAIN fields[v].v,
     mates |-> {}, at |-> Len(patches), patch |-> 0, result |-> "none"]

\* the calls in progress once c has made a call
OthersNotAlone(c) ==
    [d \in Callers |-> IF d = c \/ cpc[d] = "idle" THEN call[d]
                       ELSE [call[d] EXCEPT !.alone = FALSE]]

InitConfig ==
    /\ cfg = EmptyMap
    /\ fields = [v \in Vins |-> EmptyMap]
    /\ preferTyped = [v \in Vins |-> Null]
    /\ lockHolder = [v \in Vins |-> 0]
    /\ lockQueue = [v \in Vins |-> <<>>]
    /\ sleepQ = <<>>
    /\ cpc = [c \in Callers |-> "idle"]
    /\ call = [c \in Callers |-> NoCall]
    /\ ncalls = 0
    /\ patches = <<>>
    /\ hist = [c \in Callers |-> <<>>]
    /\ gpc = [v \in Vins |-> "idle"]
    /\ gres = [v \in Vins |-> NoRead]

\* the call of c returns (or raises) with `result`
Return(c, rec, calls, result) ==
    /\ cpc' = [cpc EXCEPT ![c] = "idle"]
    /\ call' = [calls EXCEPT ![c] = NoCall]
    /\ hist' = [hist EXCEPT ![c] = Append(@, [rec EXCEPT !.result = result])]

\* `async with self.lock` ends, asyncio.Lock.release: the lock goes to the
\* longest-waiting task, if any.
Release(v) ==
    /\ lockHolder' = [lockHolder EXCEPT ![v] =
                         IF lockQueue[v] = <<>> THEN 0 ELSE Head(lockQueue[v])]
    /\ lockQueue' = [lockQueue EXCEPT ![v] = IF @ = <<>> THEN @ ELSE Tail(@)]

\* lines 106-109 with the lock held: merge the diff into the pending diff,
\* then sleep; a merge that raises leaves update_config.
Stage(c, rec, calls) ==
    LET r      == merge(rec.config, cfg)
        staged == [rec EXCEPT
                     !.mates = {calls[sleepQ[i]].epoch :
                                  i \in {j \in DOMAIN sleepQ : calls[sleepQ[j]].vin = rec.vin}},
                     !.at = Len(patches)]
    IN  /\ cfg' = r.val
        /\ IF r.raised
           THEN /\ Return(c, staged, calls, "merge_raised")
                /\ sleepQ' = sleepQ
           ELSE /\ cpc' = [cpc EXCEPT ![c] = "sleeping"]
                /\ call' = [calls EXCEPT ![c] = staged]
                /\ sleepQ' = Append(sleepQ, c)
                /\ hist' = hist

\* update_config is entered, line 106: the merge runs at once when the
\* lock is free, otherwise the caller waits for the lock.
UpdateConfigBegin(c, rec) ==
    IF lockHolder[rec.vin] = 0
    THEN /\ Stage(c, rec, OthersNotAlone(c))
         /\ UNCHANGED <<lockHolder, lockQueue>>
    ELSE /\ lockQueue' = [lockQueue EXCEPT ![rec.vin] = Append(@, c)]
         /\ cpc' = [cpc EXCEPT ![c] = "lock1"]
         /\ call' = [OthersNotAlone(c) EXCEPT ![c] = rec]
         /\ UNCHANGED <<cfg, sleepQ, hist, lockHolder>>

\* The callers of one vehicle are numbered in the order of their first call.
HasCalled(d) == cpc[d] # "idle" \/ hist[d] # <<>>

\* A caller makes a call: chk is the test that precedes update_config.
BeginCall(c, rec, chk) ==
    /\ cpc[c] = "idle"
    /\ ncalls < MaxCalls
    /\ \A d \in Callers : (d < c /\ VinOf(d) = VinOf(c)) => HasCalled(d)
    /\ ncalls' = ncalls + 1
    /\ IF chk = "yes"
       THEN /\ Return(c, rec, OthersNotAlone(c), "noop")
            /\ UNCHANGED <<cfg, sleepQ, lockHolder, lockQueue>>
       ELSE IF chk = "raise"
       THEN /\ Return(c, rec, OthersNotAlone(c), "check_raised")
            /\ UNCHANGED <<cfg, sleepQ, lockHolder, lockQueue>>
       ELSE UpdateConfigBegin(c, rec)
    /\ UNCHANGED <<matchVars, streamVars, fields, preferTyped, patches, gpc, gres>>

\* add_field(field, interval) on vehicle v, lines 150-160
CallAddField(c, v, field, interval) ==
    /\ v = VinOf(c)
    /\ BeginCall(c, NewCall(c, v, "field", field, interval,
                            add_field_config(field, interval)),
                 AlreadyEnabled(fields[v], field, interval))

\* prefer_typed(b) on vehicle v, lines 162-166
CallPreferTyped(c, v, b) ==
    /\ v = VinOf(c)
    /\ BeginCall(c, NewCall(c, v, "typed", "", BoolVal(b), prefer_typed_config(b)),
                 IF SamePreference(preferTyped[v], b) THEN "yes" ELSE "no")

\* The lock is granted to a caller waiting at line 106.
Merge(c) ==
    /\ cpc[c] = "lock1"
    /\ lockHolder[call[c].vin] = c
    /\ Stage(c, call[c], call)
    /\ Release(call[c].vin)
    /\ UNCHANGED <<matchVars, streamVars, fields, preferTyped, ncalls, patches, gpc, gres>>

\* the lock is given up before the PATCH is sent
FlushOrReturnUnlocked(c, granted) ==
    LET v == call[c].vin
    IN  IF IsEmpty(cfg)
        THEN /\ Return(c, call[c], call, "empty")
             /\ IF granted THEN Release(v) ELSE UNCHANGED <<lockHolder, lockQueue>>
             /\ patches' = patches
        ELSE /\ patches' = Append(patches, [vin |-> v, by |-> call[c].epoch,
                                            body |-> cfg, acked |-> FALSE])
             /\ call' = [call EXCEPT ![c].patch = Len(patches) + 1]
             /\ cpc' = [cpc EXCEPT ![c] = "patching"]
             /\ lockHolder' = [lockHolder EXCEPT ![v] = 0]
             /\ UNCHANGED <<lockQueue, hist>>

\* lines 111-115 with the lock held: return when the pending diff is empty,
\* otherwise send it; the lock stays held while the PATCH is in flight.
FlushOrReturn(c, granted) ==
    LET v == call[c].vin
    IN  IF IsEmpty(cfg)
        THEN /\ Return(c, call[c], call, "empty")
             /\ IF granted THEN Release(v) ELSE UNCHANGED <<lockHolder, lockQueue>>
             /\ patches' = patches
        ELSE /\ patches' = Append(patches, [vin |-> v, by |-> call[c].epoch,
                                            body |-> cfg, acked |-> FALSE])
             /\ call' = [call EXCEPT ![c].patch = Len(patches) + 1]
             /\ cpc' = [cpc EXCEPT ![c] = "patching"]
             /\ lockHolder' = [lockHolder EXCEPT ![v] = c]
             /\ UNCHANGED <<lockQueue, hist>>

\* asyncio.sleep(1) returns, lines 109-111; every sleep lasts as long, so
\* the callers wake in the order they fell asleep.
Wake(c) ==
    /\ cpc[c] = "sleeping"
    /\ sleepQ # <<>> /\ Head(sleepQ) = c
    /\ sleepQ' = Tail(sleepQ)
    /\ IF lockHolder[call[c].vin] = 0
       THEN FlushOrReturn(c, FALSE)
       ELSE /\ lockQueue' = [lockQueue EXCEPT ![call[c].vin] = Append(@, c)]
            /\ cpc' = [cpc EXCEPT ![c] = "lock2"]
            /\ UNCHANGED <<call, hist, lockHolder, patches>>
    /\ UNCHANGED <<matchVars, streamVars, cfg, fields, preferTyped, ncalls, gpc, gres>>

\* The lock is granted to a caller waiting at line 111.
Flush(c) ==
    /\ cpc[c] = "lock2"
    /\ lockHolder[call[c].vin] = c
    /\ FlushOrReturn(c, TRUE)
    /\ UNCHANGED <<matchVars, streamVars, cfg, fields, preferTyped, sleepQ, ncalls, gpc, gres>>

\* The PATCH of line 115 is answered, lines 116-127: with an `error`, with
\* response.updated_vehicles ("acked"), with neither ("other"), or the
\* request raises.  Only an acknowledgement changes the vehicle and clears
\* the pending diff.
PatchResult(outcome) ==
    CASE outcome = "acked"        -> "acked"
      [] outcome = "patch_raised" -> "patch_raised"
      [] OTHER                    -> "unacked"

\* the pending diff is dropped whatever the answer is
PatchResponseDropsDiff(c, outcome) ==
    LET v == call[c].vin
    IN  /\ cpc[c] = "patching"
        /\ IF outcome = "acked"
           THEN /\ fields' = [fields EXCEPT ![v] = AckFields(@, cfg)]
                /\ preferTyped' = [preferTyped EXCEPT ![v] = AckPreferTyped(@, cfg)]
                /\ patches' = [patches EXCEPT ![call[c].patch].acked = TRUE]
           ELSE UNCHANGED <<fields, preferTyped, patches>>
        /\ cfg' = EmptyMap
        /\ Return(c, call[c], call, PatchResult(outcome))
        /\ Release(v)
        /\ UNCHANGED <<matchVars, streamVars, sleepQ, ncalls, gpc, gres>>

PatchResponse(c, outcome) ==
    LET v == call[c].vin
    IN  /\ cpc[c] = "patching"
        /\ IF outcome = "acked"
           THEN /\ fields' = [fields EXCEPT ![v] = AckFields(@, cfg)]
                /\ preferTyped' = [preferTyped EXCEPT ![v] = AckPreferTyped(@, cfg)]
                /\ cfg' = EmptyMap
                /\ patches' = [patches EXCEPT ![call[c].patch].acked = TRUE]
           ELSE UNCHANGED <<fields, preferTyped, cfg, patches>>
        /\ Return(c, call[c], call, PatchResult(outcome))
        /\ Release(v)
        /\ UNCHANGED <<matchVars, streamVars, sleepQ, ncalls, gpc, gres>>

\* get_config() is called for vehicle v: the GET is sent, lines 86-90
GetConfigBegin(v) ==
    /\ gpc[v] = "idle"
    /\ gpc' = [gpc EXCEPT ![v] = "getting"]
    /\ UNCHANGED <<matchVars, streamVars, cfg, fields, preferTyped, lockHolder, lockQueue,
                   sleepQ, cpc, call, ncalls, patches, hist, gres>>

\* the GET is answered with `status` (and `body` when 200), lines 91-100
GetConfigResponse(v, status, body) ==
    /\ gpc[v] = "getting"
    /\ gpc' = [gpc EXCEPT ![v] = "idle"]
    /\ IF status = 200
       THEN /\ fields' = [fields EXCEPT ![v] = DictGet(body, "fields", Null)]
            /\ preferTyped' = [preferTyped EXCEPT ![v] =
                                  DictGet(body, "prefer_typed", BoolVal(FALSE))]
            /\ gres' = [gres EXCEPT ![v] = [status |-> status, raised |-> FALSE]]
       ELSE /\ UNCHANGED <<fields, preferTyped>>
            /\ gres' = [gres EXCEPT ![v] =
                           [status |-> status,
                            raised |-> status # 404 /\ ~ok(status)]]
    /\ UNCHANGED <<matchVars, streamVars, cfg, lockHolder, lockQueue,
                   sleepQ, cpc, call, ncalls, patches, hist>>

GetConfigNext ==
    \E v \in Vins :
       \/ GetConfigBegin(v)
       \/ \E i \in 1..Len(GetStatuses), b \in 1..Len(GetBodies) :
             GetConfigResponse(v, GetStatuses[i], GetBodies[b])

ConfigNext ==
    \E c \in Callers :
       \/ \E v \in Vins, f \in 1..Len(FieldNames), i \in 1..Len(Intervals) :
             CallAddField(c, v, FieldNames[f], Intervals[i])
       \/ \E v \in Vins, b \in BOOLEAN : CallPreferTyped(c, v, b)
       \/ Merge(c)
       \/ Wake(c)
       \/ Flush(c)
       \/ \E outcome \in Outcomes : PatchResponse(c, outcome)

Init == StreamInit /\ MatchIdle /\ InitConfig
Next == StreamNext
Spec == Init /\ [][Next]_vars

\* The event loop runs every task that can run: a listen() task whose
\* connect, read or sleep can return is resumed, and a dispatch pass runs to
\* its end.
SpecFair == Spec /\ \A t \in TaskIds : WF_vars(TaskStep(t))

\* The stream reading also lines that carry no data.
SpecLines == Init /\ [][LinesNext]_vars

\* The stream of an application that may call a disposer again.
SpecDispose == Init /\ [][DisposeNext]_vars

\* The stream made with manual=False or manual=True, of an application that
\* may call disconnect() and, in manual mode, listen().
InitApp == StreamStart /\ manual \in BOOLEAN /\ MatchIdle /\ InitConfig
SpecApp == InitApp /\ [][AppNext]_vars

InitMatch == MatchInit /\ StreamInit /\ InitConfig
NextMatch == Evaluate
SpecMatch == InitMatch /\ [][NextMatch]_vars

InitConfigSpec == InitConfig /\ StreamInit /\ MatchIdle
NextConfig == ConfigNext
SpecConfig == InitConfigSpec /\ [][NextConfig]_vars

InitTimestamp == TimestampInit /\ mP = Null /\ mE = Null /\ mOrder = <<>>
                 /\ mResult = "none" /\ StreamInit /\ InitConfig
NextTimestamp == ParseTimestamp
SpecTimestamp == InitTimestamp /\ [][NextTimestamp]_vars

InitEvent == EventInit /\ mP = Null /\ mE = Null /\ mOrder = <<>>
             /\ mResult = "none" /\ StreamInit /\ InitConfig
NextEvent == DeriveTimestamp
SpecEvent == InitEvent /\ [][NextEvent]_vars

InitGetConfig == InitConfig /\ StreamInit /\ MatchIdle
NextGetConfig == GetConfigNext
SpecGetConfig == InitGetConfig /\ [][NextGetConfig]_vars

(***************************************************************************)
(* Properties of the stream, checked under Spec.                           *)
(***************************************************************************)
Sleeping == {"sleep_double", "sleep_keep"}
Increasing(q) == \A i, j \in DOMAIN q : i < j => q[i] < q[j]

\* C1: when a callback raised during a dispatch pass, the pass still ends
\* normally (the listen() task is not ended by an exception) and every
\* subscription that matched the event and is still registered was invoked.
C1_ListenerIsolation ==
    lastPass.raised => (~lastPass.crashed /\ lastPass.missed = {})

\* C2: when a callback called a disposer during a dispatch pass, the pass
\* completes without error and every matching subscription that was not
\* removed was invoked.
C2_DisposeDuringDispatch ==
    lastPass.disposed => (~lastPass.crashed /\ lastPass.missed = {})

\* C3: once the last subscription has been removed (the registry is empty
\* and active is false) and as long as none is added, active stays false
\* and no task calls connect(), wherever the loop was at the removal.
C3_IdleShutdown ==
    [][ (listeners = <<>> /\ ~active /\ nextSub > 1 /\ listeners' = <<>>)
          => /\ ~active'
             /\ \A t \in TaskIds : pc'[t] = "connecting" => pc[t] = "connecting" ]_vars

\* C4: at most one listen() task is scheduled or running at any time.
C4_SingleLoop ==
    Cardinality({t \in TaskIds : pc[t] \in Running}) <= 1

\* C8: every failed step waits the current delay and then doubles it, and
\* decoding an event resets the delay to the floor DELAY.
C8_BackoffDoubling ==
    [][ /\ \A t \in TaskIds :
              (pc[t] \in Sleeping /\ pc'[t] \notin Sleeping) => delay' = 2 * delay
        /\ seq' # seq => delay' = DELAY ]_vars

\* C10: every subscription sees its events in the order they were decoded,
\* and when the next event is decoded every subscription that matched the
\* previous one has been invoked for it.
C10_OrderedSynchronousDispatch ==
    [][ /\ \A s \in SubIds : Increasing(delivered'[s])
        /\ seq' # seq => (Idle /\ lastPass.missed = {}) ]_vars

(***************************************************************************)
(* Properties of the configuration synchronizer, checked under SpecConfig. *)
(***************************************************************************)
\* the calls made so far: caller c's i-th call, finished or in progress
CallIds   == {p \in Callers \X (1..MaxCalls) :
                 p[2] <= Len(hist[p[1]]) + (IF cpc[p[1]] = "idle" THEN 0 ELSE 1)}
Finished  == {p \in CallIds : p[2] <= Len(hist[p[1]])}
CallOf(p) == IF p[2] <= Len(hist[p[1]]) THEN hist[p[1]][p[2]] ELSE call[p[1]]
Quiescent == \A c \in Callers : cpc[c] = "idle"

\* the call passed its diff to update_config
Staging(h) == h.result \notin {"noop", "check_raised"}
Sent(h)    == IF h.patch # 0 THEN 1 ELSE 0
SameKey(h, g) == h.vin = g.vin /\ h.kind = g.kind /\ h.field = g.field
SameArg(h, g) == h.arg.t = g.arg.t /\ (h.arg.t = "null" \/ h.arg.v = g.arg.v)

\* every entry of the diff is in the body, with the same value
RECURSIVE Covers(_, _)
Covers(body, diff) ==
    IF diff.t = "map"
    THEN /\ body.t = "map"
         /\ \A k \in DOMAIN diff.v : k \in DOMAIN body.v /\ Covers(body.v[k], diff.v[k])
    ELSE body.t = diff.t /\ (diff.t = "null" \/ body.v = diff.v)

\* the PATCHes sent for the vehicle of h after h staged its diff
PatchesAfter(h) == {i \in DOMAIN patches : i > h.at /\ patches[i].vin = h.vin}

\* C5: when a first add_field call of a vehicle and the add_field calls
\* staged while it slept name distinct fields that are not in the field
\* table, then once all of them have returned exactly one of them has sent
\* a PATCH, and its body contains every one of their fields.
C5_DebounceCoalesces ==
    \A p \in Finished :
       LET first   == CallOf(p)
           window  == {q \in Finished : CallOf(q).vin = first.vin
                                        /\ first.epoch \in CallOf(q).mates}
           batch   == {p} \cup window
           senders == {q \in batch : CallOf(q).patch # 0}
       IN  ( /\ Quiescent
             /\ first.mates = {}
             /\ window # {}
             /\ \A q \in batch : /\ CallOf(q).kind = "field" /\ CallOf(q).fresh
                                 /\ Staging(CallOf(q))
             /\ \A q, r \in batch : q # r => CallOf(q).field # CallOf(r).field )
           => /\ Cardinality(senders) = 1
              /\ \A s \in senders, q \in batch :
                    Covers(patches[CallOf(s).patch].body, CallOf(q).config)

\* C6: the change of every finished update_config call, unless a later call
\* changed the same key of the same vehicle, is in the body of a PATCH sent
\* for the vehicle since, or is still in the pending diff; and two PATCHes
\* of the vehicle carry it, the first acknowledged, only when it was staged
\* again in between.
C6_NoChangeLost ==
    \A p \in Finished :
       LET h == CallOf(p)
       IN  Staging(h) =>
             /\ \/ \E q \in CallIds : /\ CallOf(q).epoch > h.epoch
                                      /\ SameKey(CallOf(q), h) /\ Staging(CallOf(q))
                \/ Covers(cfg, h.config)
                \/ \E i \in PatchesAfter(h) : Covers(patches[i].body, h.config)
             /\ \A i, j \in PatchesAfter(h) :
                   ( /\ i < j /\ patches[i].acked
                     /\ Covers(patches[i].body, h.config)
                     /\ Covers(patches[j].body, h.config) )
                   => \E q \in CallIds : /\ CallOf(q).at >= i /\ CallOf(q).vin = h.vin
                                          /\ Covers(CallOf(q).config, h.config)

\* two consecutive calls of one caller with the same field and interval,
\* and no other call made from the start of the first to the end of the second
TwiceInARow(p, q) ==
    /\ p[1] = q[1] /\ q[2] = p[2] + 1
    /\ CallOf(p).kind = "field" /\ SameKey(CallOf(p), CallOf(q))
    /\ SameArg(CallOf(p), CallOf(q))
    /\ CallOf(p).alone /\ CallOf(q).alone
    /\ CallOf(q).epoch = CallOf(p).epoch + 1

C9_SubsetCheck ==
    mResult # "none" => ((mResult = "true") <=> SubsetMatch(mP, mE))

\* C31: recursive_match(P, E) returns true or false for every pattern and
\* every event; it never raises, whatever the shapes of the values that
\* meet.
C31_MatchNeverRaises ==
    mResult \in {"none", "true", "false"}

(***************************************************************************)
(* Further properties of the stream, checked under Spec.                   *)
(***************************************************************************)
InSeq(x, q) == \E i \in DOMAIN q : q[i] = x

\* C11: a subscription's deliveries grow only by the event being dispatched,
\* only when its filter matches that event and only when it has not been
\* delivered that event before; nothing is delivered outside the dispatch
\* pass of a decoded event (a line that fails to decode starts no pass).
C11_DeliveredOnceIfMatching ==
    [][ \A s \in SubIds :
          (delivered'[s] # delivered[s] /\ delivered'[s] # <<>>)
          => /\ ~Idle
             /\ pc[dispatch.task] = "dispatching"
             /\ delivered'[s] = Append(delivered[s], dispatch.n)
             /\ ~InSeq(dispatch.n, delivered[s])
             /\ s \in Registered(listeners)
             /\ recursive_match(StreamFilters[filters[s]],
                                StreamEvents[dispatch.ev], DictOrder) = "true" ]_vars

\* a pass has visited two subscriptions: the one whose filter does not match
\* the event was skipped, the one whose filter matches was invoked once
C11_Witness ==
    /\ ~Idle
    /\ Len(listeners) = 2 /\ dispatch.pos = 3
    /\ recursive_match(StreamFilters[filters[listeners[1]]],
                       StreamEvents[dispatch.ev], DictOrder) = "false"
    /\ delivered[listeners[1]] = <<>>
    /\ delivered[listeners[2]] = <<dispatch.n>>

\* task t begins a step of __anext__: the previous step returned (after its
\* backoff wait, or by the end of the dispatch pass of its event)
StepBegins(t) ==
    \/ pc[t] \in {"sleep_double", "sleep_keep"} /\ pc'[t] # pc[t]
    \/ pc[t] = "dispatching" /\ pc'[t] \notin {"dispatching", "crashed"}

\* C12: a step of __anext__ that begins while `active` is false closes the
\* open connection if there is one and ends the iteration: it neither
\* connects nor waits nor reads, `active` stays false, and a loop that has
\* ended never runs again.
C12_StopWins ==
    [][ \A t \in TaskIds :
          /\ (StepBegins(t) /\ ~active)
               => /\ pc'[t] = "done"
                  /\ response' = 0
                  /\ openConns' = openConns \ {response}
                  /\ ~active'
          /\ pc[t] = "done" => pc'[t] = "done" ]_vars

\* a loop read an event from an open connection, found `active` false at
\* its next step and ended, leaving no connection open
C12_Witness ==
    \E t \in TaskIds :
       /\ pc[t] = "done" /\ seq = 1 /\ delay = DELAY /\ ~lastPass.crashed
       /\ ~active /\ response = 0 /\ openConns = {} /\ listeners = <<>>

\* the step of task t fails while connecting or reading
StepFails(t) ==
    /\ pc[t] \in {"connecting", "reading"}
    /\ pc'[t] \notin {"connecting", "reading", "dispatching"}

C17_DisposerRemovesOnlyItself ==
    [][ \A s \in Registered(listeners) \ Registered(listeners') :
          /\ listeners' = SelectSeq(listeners, LAMBDA x : x # s)
          /\ Registered(listeners') = Registered(listeners) \ {s}
          /\ \A u \in Registered(listeners) \ {s} : filters'[u] = filters[u] ]_vars

\* three subscriptions were registered and one was disposed of: two with
\* the same filter are still registered, one of them invoked since
C17_Witness ==
    /\ nextSub = 4 /\ Len(listeners) = 2
    /\ filters[listeners[1]] = filters[listeners[2]]
    /\ delivered[listeners[2]] # <<>>

\* a call of close() by the application that finds a connection open: the
\* only step that touches the connection and moves no task
ClosesOpen == connected /\ pc' = pc /\ (response' # response \/ openConns' # openConns)

\* C18: close() with no open connection leaves the state as it is; with an
\* open connection it closes that connection and unsets the handle, and a
\* second close() after it changes nothing; close() changes neither
\* `active` nor the subscriptions.
C18_CloseIdempotent ==
    [][ /\ ~connected => close = [response |-> response, openConns |-> openConns]
        /\ ClosesOpen
             => /\ ~connected'
                /\ openConns' = openConns \ {response}
                /\ close' = [response |-> response', openConns |-> openConns']
                /\ active' = active
                /\ listeners' = listeners /\ filters' = filters ]_vars

\* the application closed the connection under a reading task: nothing is
\* open, the stream is active and the subscription is registered
C18_Witness ==
    \E t \in TaskIds :
       /\ pc[t] = "reading" /\ rd[t] # 0 /\ rd[t] \notin openConns
       /\ ~connected /\ active /\ listeners # <<>>

\* C25: every failure of a step (connection error, end of the stream,
\* a data line that does not decode) is handled in the same way: the
\* connection is closed and unset, the task waits the current delay, and the
\* delay is doubled when the wait is over.
C25_FailuresHandledAlike ==
    [][ \A t \in TaskIds :
          /\ StepFails(t)
               => /\ pc'[t] = "sleep_double"
                  /\ response' = 0 /\ response \notin openConns'
                  /\ delay' = delay
          /\ (pc[t] \in Sleeping /\ pc'[t] \notin Sleeping)
               => delay' = BackoffNext(delay) ]_vars

\* no listen() task is scheduled or running and no connection is open
Stopped == (\A t \in TaskIds : pc[t] \notin Running) /\ openConns = {}

\* C26: when the registry has become empty and stays empty, and no connect
\* and no read stays pending for ever (every sleep returns, by fairness),
\* then eventually no loop is running and no connection is open, for good.
C26_EventuallyStopped ==
    ( /\ <>[](listeners = <<>> /\ nextSub > 1)
      /\ \A t \in TaskIds : []<>(pc[t] # "connecting") /\ []<>(pc[t] # "reading") )
    => <>[]Stopped

\* C27: a read that is pending while `active` is false is not given up: it
\* ends by an event, a failure or the end of the stream, never by the end of
\* the loop; an event it yields starts a pass over the subscriptions
\* registered at that moment, and the pass invokes each one whose filter
\* matches; the loop ends only by a step of __anext__ that begins afterwards
\* with `active` false.
C27_PendingReadCompletes ==
    [][ \A t \in TaskIds :
          /\ (pc[t] = "reading" /\ ~active /\ pc'[t] # "reading")
               => pc'[t] \in {"dispatching", "sleep_double", "sleep_keep"}
          /\ (pc[t] = "reading" /\ ~active /\ pc'[t] = "dispatching")
               => /\ dispatch'.task = t /\ dispatch'.pos = 1
                  /\ dispatch'.n = seq' /\ seq' = seq + 1
                  /\ dispatch'.owed =
                        {s \in Registered(listeners) :
                           recursive_match(StreamFilters[filters[s]],
                                           StreamEvents[dispatch'.ev], DictOrder) = "true"}
                  /\ ~active' /\ listeners' = listeners
                  /\ response' = response /\ openConns' = openConns
          /\ (Dispatching(t) /\ ~active /\ dispatch'.pos = dispatch.pos + 1
                /\ MatchOfCurrent = "true")
               => InSeq(dispatch.n, delivered'[Current])
                  \/ Current \notin Registered(listeners')
          /\ (pc[t] # "done" /\ pc'[t] = "done") => (StepBegins(t) /\ ~active) ]_vars

\* the last subscription was removed and another registered while a read was
\* pending; the read yielded an event, the new subscription received it, and
\* the loop ended at its next step
C27_Witness ==
    \E t \in TaskIds, s \in SubIds :
       /\ pc[t] = "done" /\ ~active /\ seq = 1
       /\ s > 1 /\ s \in Registered(listeners) /\ delivered[s] = <<1>>
       /\ ~lastPass.crashed /\ lastPass.missed = {}

\* C28: a stop request (`active` becomes false) made while a task waits out
\* its backoff ends the wait: the task is not left waiting for the timer of
\* asyncio.sleep(self.delay).
C28_StopEndsBackoff ==
    [][ \A t \in TaskIds :
          (pc[t] \in Sleeping /\ active /\ ~active') => pc'[t] \notin Sleeping ]_vars

\* every listen() task made so far has ended by StopAsyncIteration
AllEnded == nextTask > 1 /\ \A t \in TaskIds : pc[t] \in {"none", "done"}

\* C29: a registration made when every loop has ended schedules a new
\* listen() task; that task, when it starts with no other loop alive, sets
\* `active`, finds no connection and connects; the passes of its events
\* invoke each registered subscription whose filter matches.
C29_Restartable ==
    [][ /\ (AllEnded /\ listeners = <<>> /\ listeners' # <<>>)
             => /\ \E t \in TaskIds : pc[t] = "none" /\ pc'[t] = "scheduled"
                /\ ~connected /\ ~active
        /\ \A t \in TaskIds :
             /\ (/\ pc[t] = "scheduled" /\ pc'[t] # "scheduled"
                 /\ \A u \in TaskIds \ {t} : pc[u] \in {"none", "done"})
                  => /\ active' /\ ~connected
                     /\ pc'[t] = "connecting"
             /\ (/\ pc[t] = "connecting" /\ pc'[t] = "reading"
                 /\ \A u \in TaskIds \ {t} : pc[u] \in {"none", "done"})
                  => /\ connected' /\ rd'[t] = response' /\ response' \in openConns'
             /\ (/\ Dispatching(t) /\ dispatch'.pos = dispatch.pos + 1
                 /\ MatchOfCurrent = "true" /\ Current \in Registered(listeners'))
                  => delivered'[Current] = Append(delivered[Current], dispatch.n) ]_vars

\* the first loop has ended; a second subscription is registered, and the
\* second loop, on its own connection, is in the pass of an event that it
\* has just handed to that subscription
C29_Witness ==
    /\ pc[1] = "done" /\ Dispatching(2) /\ rd[2] = response /\ connected
    /\ active /\ listeners = <<2>> /\ nextSub = 3
    /\ dispatch.pos = 2 /\ delivered[2] = <<dispatch.n>>

\* C32: reading a line whose field is not `data` produces no event, starts
\* no dispatch pass, delivers nothing, leaves the backoff delay as it is and
\* leaves the task reading the same open connection.
C32_OtherLinesIgnored ==
    [][ ignored' # ignored
          => /\ seq' = seq /\ dispatch' = dispatch /\ lastPass' = lastPass
             /\ delivered' = delivered
             /\ delay' = delay
             /\ pc' = pc /\ rd' = rd
             /\ response' = response /\ openConns' = openConns
             /\ \E t \in TaskIds : pc'[t] = "reading" /\ rd'[t] \in openConns' ]_vars

\* after a failure has doubled the delay, a task has read a line without
\* data: no event was produced, the delay is still doubled, the task reads on
C32_Witness ==
    /\ ignored = 1 /\ seq = 0 /\ delay = 2 * DELAY
    /\ \A s \in SubIds : delivered[s] = <<>>
    /\ \E t \in TaskIds : pc[t] = "reading" /\ rd[t] \in openConns /\ rd[t] = response

\* C35: a response is assigned to the handle only when the handle is
\* unset, and at most one connection of the stream is open at any time.
C35_OneConnection ==
    [][ /\ (response' # response /\ response' # 0) => response = 0
        /\ Cardinality(openConns') <= 1 ]_vars

\* C36: when a listen() task ends, by the end of the iteration or by an
\* exception that leaves listen(), the handle of the stream is unset.
C36_EndedLoopClosed ==
    [][ \A t \in TaskIds :
          (pc[t] \in Running /\ pc'[t] \in {"done", "crashed"}) => ~connected' ]_vars

\* C37: a call of a disposer whose subscription is no longer registered
\* raises and changes nothing: the registry, the filters, `active`, the
\* connection and the tasks are as before.
C37_SecondDisposeFails ==
    [][ keyErrors' # keyErrors
          => /\ keyErrors' = keyErrors + 1
             /\ listeners' = listeners /\ filters' = filters /\ delivered' = delivered
             /\ active' = active
             /\ response' = response /\ openConns' = openConns
             /\ pc' = pc /\ rd' = rd ]_vars

\* of two subscriptions one was disposed, and its disposer has been called
\* again: the other is still registered, the stream is active and a task is
\* reading its open connection
C37_Witness ==
    /\ keyErrors = 1 /\ nextSub = 3 /\ Len(listeners) = 1 /\ active
    /\ \E t \in TaskIds : pc[t] = "reading" /\ rd[t] \in openConns /\ rd[t] = response

(***************************************************************************)
(* Properties of the whole interface, checked under SpecApp.               *)
(***************************************************************************)
\* C34: in a stream that is not manual, whenever a subscription is
\* registered, a listen() task is scheduled or running.
C34_SubscribersHaveALoop ==
    (~manual /\ listeners # <<>> /\ Idle) => \E t \in TaskIds : pc[t] \in Running

\* C39: in a manual stream a registration makes no listen() task and
\* touches neither `active` nor the connection; as long as the application
\* has not called listen() no task exists, nothing is connected and `active`
\* is false; the removal of the last subscription leaves `active` false.
C39_ManualStartsNothing ==
    [][ manual
          => /\ Len(listeners') > Len(listeners)
                  => /\ pc' = pc /\ nextTask' = nextTask
                     /\ active' = active
                     /\ response' = response /\ openConns' = openConns
             /\ nextTask' = 1
                  => /\ \A t \in TaskIds : pc'[t] = "none"
                     /\ ~connected' /\ openConns' = {} /\ ~active'
             /\ (listeners # <<>> /\ listeners' = <<>>) => ~active'
             /\ manual' ]_vars

\* a manual stream whose application called listen(): the loop connected,
\* and the only subscription, registered without starting another loop, was
\* removed while the loop was reading: `active` is false
C39_Witness ==
    /\ manual /\ nextTask = 2 /\ nextSub = 2 /\ listeners = <<>> /\ ~active
    /\ pc[1] = "reading" /\ rd[1] = response /\ connected

(***************************************************************************)
(* Further properties of the configuration synchronizer, checked under     *)
(* SpecConfig.                                                             *)
(***************************************************************************)
\* caller c makes a call in this step, and the call as it stands after it
Calls(c) == cpc[c] = "idle" /\ ncalls' = ncalls + 1
            /\ (cpc'[c] # "idle" \/ Len(hist'[c]) = Len(hist[c]) + 1)
CallMade(c) == IF cpc'[c] # "idle" THEN call'[c] ELSE hist'[c][Len(hist'[c])]

\* field is recorded in the table with the interval `interval`
RecordedAt(tbl, field, interval) ==
    /\ field \in DOMAIN tbl.v
    /\ tbl.v[field].t = "map"
    /\ Has(tbl.v[field], "interval_seconds")
    /\ tbl.v[field].v["interval_seconds"] = interval

\* C14: add_field(F, I) returns without a write when F is in the field
\* table and I is None or the recorded interval equals I; in every other
\* case (F recorded without an interval and I given, F recorded at another
\* interval, F not recorded) it stages {fields: {F: {interval_seconds: I} or
\* null}} and enters update_config.
C14_AddFieldDecision ==
    [][ \A c \in Callers :
          (Calls(c) /\ CallMade(c).kind = "field")
          => LET rec == CallMade(c)
                 tbl == fields[rec.vin]
             IN  IF /\ rec.field \in DOMAIN tbl.v
                    /\ (rec.arg.t = "null" \/ RecordedAt(tbl, rec.field, rec.arg))
                 THEN rec.result = "noop" /\ cfg' = cfg
                 ELSE /\ rec.result \notin {"noop", "check_raised"}
                      /\ rec.config =
                           Map1("fields",
                                Map1(rec.field,
                                     IF rec.arg.t = "null" THEN Null
                                     ELSE Map1("interval_seconds", rec.arg))) ]_vars

\* the PATCH sent by caller c is answered in this step, and its body
Answered(c) == cpc[c] = "patching" /\ cpc'[c] = "idle"
Acknowledged(c) == Answered(c) /\ patches'[call[c].patch].acked
Written(c) == patches[call[c].patch].body

\* C15: when a PATCH is acknowledged, the field table of the vehicle holds
\* every field of the written diff with the value written, preferTyped is
\* the prefer_typed value written (true or false) when the diff had one,
\* and the pending diff is empty.
C15_AckApplied ==
    [][ \A c \in Callers :
          Acknowledged(c)
          => LET body == Written(c)
                 v    == call[c].vin
             IN  /\ Has(body, "fields")
                      => \A k \in DOMAIN body.v["fields"].v :
                            /\ k \in DOMAIN fields'[v].v
                            /\ fields'[v].v[k] = body.v["fields"].v[k]
                 /\ Has(body, "prefer_typed")
                      => preferTyped'[v] = body.v["prefer_typed"]
                 /\ cfg' = EmptyMap ]_vars

\* C16: a PATCH answered with an `error` (or without an acknowledgement)
\* makes update_config return normally and changes neither the pending
\* diff nor the field table nor preferTyped; and every PATCH sends the whole
\* pending diff, so the diff left in place goes out with the next write.
C16_ErrorKeepsDiff ==
    [][ /\ \A c \in Callers :
             (Answered(c) /\ ~patches'[call[c].patch].acked
                /\ hist'[c][Len(hist'[c])].result # "patch_raised")
             => /\ hist'[c][Len(hist'[c])].result = "unacked"
                /\ cfg' = cfg
                /\ fields' = fields
                /\ preferTyped' = preferTyped
        /\ Len(patches') > Len(patches)
             => /\ Len(patches') = Len(patches) + 1
                /\ patches'[Len(patches')].body = cfg ]_vars

\* a PATCH was answered with an error and the next PATCH of the vehicle
\* carries its diff again; the vehicle is as it was
C16_Witness ==
    \E p \in Finished :
       LET h == CallOf(p)
       IN  /\ h.result = "unacked" /\ h.patch # 0
           /\ Len(patches) = h.patch + 1
           /\ patches[h.patch + 1].vin = h.vin
           /\ Covers(patches[h.patch + 1].body, patches[h.patch].body)
           /\ fields[h.vin] = EmptyMap /\ preferTyped[h.vin] = Null

\* a call made on vehicle v staged a change of `key` ("prefer_typed" or a
\* field name)
StagedOn(v, key) ==
    \E p \in CallIds :
       /\ CallOf(p).vin = v /\ Staging(CallOf(p))
       /\ \/ CallOf(p).kind = "field" /\ CallOf(p).field = key
          \/ CallOf(p).kind = "typed" /\ key = "prefer_typed"

\* C21: the pending diff is the vehicle's own: every entry of the body of a
\* PATCH sent for a vehicle was staged by a call made on that vehicle.
C21_PerVehicleDiff ==
    \A i \in DOMAIN patches :
       LET body == patches[i].body
           v    == patches[i].vin
       IN  /\ Has(body, "prefer_typed") => StagedOn(v, "prefer_typed")
           /\ Has(body, "fields")
                => \A k \in DOMAIN body.v["fields"].v : StagedOn(v, k)

\* C22: of two update_config calls of a vehicle that waited in the debounce
\* sleep at the same time, exactly one has sent a PATCH once both have
\* returned, the other found the pending diff empty; and no PATCH has an
\* empty body.
C22_OneFlushPerWindow ==
    /\ \A i \in DOMAIN patches : ~IsEmpty(patches[i].body)
    /\ \A p, q \in Finished :
          (/\ CallOf(p).epoch \in CallOf(q).mates
           /\ CallOf(p).result \in {"empty", "acked", "unacked"}
           /\ CallOf(q).result \in {"empty", "acked", "unacked"})
          => \/ CallOf(p).patch # 0 /\ CallOf(q).patch = 0 /\ CallOf(q).result = "empty"
             \/ CallOf(q).patch # 0 /\ CallOf(p).patch = 0 /\ CallOf(p).result = "empty"

\* C23: the pending diff goes from non-empty to empty only in the step
\* that handles the acknowledgement of a PATCH, and what is emptied is what
\* that PATCH wrote.
C23_ClearedOnlyByItsAck ==
    [][ (~IsEmpty(cfg) /\ IsEmpty(cfg'))
        => \E c \in Callers : Acknowledged(c) /\ Covers(Written(c), cfg) ]_vars

\* the entries of the field table of v added or changed by this step
ChangedFields(v) ==
    {k \in DOMAIN fields'[v].v : k \notin DOMAIN fields[v].v \/ fields'[v].v[k] # fields[v].v[k]}

\* C24: the field table of a vehicle changes only in the step that handles
\* the acknowledgement of a PATCH sent for that vehicle, no entry is ever
\* removed, and every entry added or changed is in the body of that PATCH
\* with the value recorded.
C24_TableFollowsAck ==
    [][ \A v \in Vins :
          fields'[v] # fields[v]
          => /\ DOMAIN fields[v].v \subseteq DOMAIN fields'[v].v
             /\ \E c \in Callers :
                   /\ Acknowledged(c) /\ call[c].vin = v
                   /\ Has(Written(c), "fields")
                   /\ \A k \in ChangedFields(v) :
                         /\ k \in DOMAIN Written(c).v["fields"].v
                         /\ Written(c).v["fields"].v[k] = fields'[v].v[k] ]_vars

\* the deep merge of the diff s into the diff d: a mapping of s is merged
\* into what d holds at the key (into an empty mapping when d holds none
\* there), any other value of s replaces it, the other keys of d stay
RECURSIVE DeepMerge(_, _)
DeepMerge(s, d) ==
    [t |-> "map",
     v |-> [k \in DOMAIN s.v \cup DOMAIN d.v |->
              IF k \notin DOMAIN s.v THEN d.v[k]
              ELSE IF s.v[k].t = "map"
                   THEN DeepMerge(s.v[k], IF k \in DOMAIN d.v /\ d.v[k].t = "map"
                                          THEN d.v[k] ELSE EmptyMap)
                   ELSE s.v[k]]]

\* C30: the merge of a call's diff into the pending diff never raises, and
\* the pending diff after it is the deep merge of the two.
C30_MergeIsDeepMerge ==
    [][ \A c \in Callers :
          /\ hist'[c] # hist[c] => hist'[c][Len(hist'[c])].result # "merge_raised"
          /\ (cpc[c] # "sleeping" /\ cpc'[c] = "sleeping")
               => cfg' = DeepMerge(call'[c].config, cfg) ]_vars

\* the calls of update_config made for vehicle v, the PATCHes sent for it
\* and the callers whose PATCH for it is in flight
UpdateCalls(v) == {p \in CallIds : CallOf(p).vin = v /\ Staging(CallOf(p))}
PatchesOf(v)   == {i \in DOMAIN patches : patches[i].vin = v}
InFlight(v)    == {c \in Callers : cpc[c] = "patching" /\ call[c].vin = v}

\* the position of a call in update_config: it only moves forward
StageOf(c) ==
    CASE cpc[c] = "lock1"    -> 1
      [] cpc[c] = "sleeping" -> 2
      [] cpc[c] = "lock2"    -> 3
      [] cpc[c] = "patching" -> 4
      [] OTHER               -> 0

\* a step of a call of update_config that is in progress
UpdateConfigStep ==
    \E c \in Callers :
       Merge(c) \/ Wake(c) \/ Flush(c) \/ \E o \in Outcomes : PatchResponse(c, o)

\* while a call is in progress, one of the calls in progress can take a step
CallsCanProceed == (\E c \in Callers : cpc[c] # "idle") => ENABLED UpdateConfigStep

\* C38: a call of update_config sends at most one PATCH, only moves forward
\* and is never blocked for good (so it ends, when its sleep returns and its
\* PATCH is answered); the PATCHes sent for a vehicle are never more than
\* the calls of update_config made for it, and at most one of them is in
\* flight at a time.
C38_OnePatchPerCall ==
    /\ []CallsCanProceed
    /\ [][ /\ \A c \in Callers :
                /\ (cpc[c] # "idle" /\ cpc'[c] # "idle")
                     => /\ StageOf(c)' >= StageOf(c)
                        /\ call'[c].epoch = call[c].epoch
                /\ (cpc[c] = "patching" /\ cpc'[c] # cpc[c])
                     => cpc'[c] = "idle" /\ patches' = [patches EXCEPT ![call[c].patch].acked = patches'[call[c].patch].acked]
           /\ Len(patches') > Len(patches)
                => /\ Len(patches') = Len(patches) + 1
                   /\ \E c \in Callers :
                         /\ cpc[c] \in {"sleeping", "lock2"} /\ cpc'[c] = "patching"
                         /\ call[c].patch = 0 /\ call'[c].patch = Len(patches')
                         /\ patches'[Len(patches')].vin = call[c].vin
           /\ \A v \in Vins :
                /\ Cardinality(PatchesOf(v))' <= Cardinality(UpdateCalls(v))'
                /\ Cardinality(InFlight(v))' <= 1 ]_vars

\* two calls of update_config for vehicle 1 have ended and each has sent
\* one PATCH
C38_Witness ==
    /\ Quiescent
    /\ Cardinality(PatchesOf(1)) = 2 /\ Cardinality(UpdateCalls(1)) = 2

(***************************************************************************)
(* Properties of get_config, checked under SpecGetConfig.                  *)
(***************************************************************************)
\* C19: a configuration read answered with 404 returns without raising and
\* the field table of the vehicle is empty after it; an answer with any
\* other status than 200 and 404 is raised to the caller.
C19_NotFoundMeansEmpty ==
    [][ \A v \in Vins :
          (gpc[v] = "getting" /\ gpc'[v] = "idle")
          => /\ gres'[v].status = 404
                  => ~gres'[v].raised /\ fields'[v] = EmptyMap
             /\ gres'[v].status \notin {200, 404} => gres'[v].raised ]_vars

(***************************************************************************)
(* Properties of the timestamp parsing, checked under SpecTimestamp.       *)
(***************************************************************************)
\* the milliseconds the first three fractional digits stand for: the
\* digits are tenths, hundredths and thousandths of a second; none without
\* a fractional suffix
Millis(ds) ==
    (IF Len(ds) >= 1 THEN 100 * ds[1].v ELSE 0)
    + (IF Len(ds) >= 2 THEN 10 * ds[2].v ELSE 0)
    + (IF Len(ds) >= 3 THEN ds[3].v ELSE 0)

\* C20: the timestamp derived from createdAt is the UTC epoch of its
\* whole-second part times 1000 plus the milliseconds of its first three
\* fractional digits, 0 when it has no fractional suffix.
C20_TimestampMillis ==
    timestamp # NoTimestamp
    => /\ ~timestamp.raised
       /\ timestamp.sec = utc_timestamp(DateTimes[createdAt[1].v])
       /\ timestamp.ms = Millis(SubSeq(createdAt, 3, Len(createdAt)))

(***************************************************************************)
(* Properties of the events without createdAt, checked under SpecEvent.    *)
(***************************************************************************)
\* C33: with parse_timestamp enabled, handling a decoded event that has no
\* createdAt raises nothing: the event is returned as decoded.
C33_NoCreatedAtNoError ==
    (createdAt = <<NoKeyTok>> /\ timestamp # NoTimestamp) => ~timestamp.raised

====
